---- MODULE Spec2Model ----
(***************************************************************************)
(* Model of python_training/src/feature_extraction.py (WakeOn drowsiness   *)
(* detection): the eye-aspect-ratio computation, the blink-detector state  *)
(* machine, the temporal sliding-window extractor and the per-frame        *)
(* pipeline FeatureExtractor that combines them.                           *)
(*                                                                         *)
(* Numbers.  EAR values are integers in thousandths (0.21 is 210).         *)
(* Landmark coordinates are integers on a grid of 1/100 of the frame.      *)
(* Timestamps are whole seconds.  Means, ratios and normalised values are  *)
(* exact fractions <<numerator, denominator>> in lowest terms; a standard  *)
(* deviation is kept as the exact fraction it is the square root of.       *)
(* Floating-point rounding is not modelled.                                *)
(***************************************************************************)
EXTENDS Integers, Sequences, FiniteSets, TLC

VARIABLES
    bd,           \* the BlinkDetector object
    tfe,          \* the TemporalFeatureExtractor object
    features,     \* the FacialFeatures record last returned by extract
    blink_event,  \* the value last returned by BlinkDetector.update
    temporal,     \* the value last returned by TemporalFeatureExtractor.update
    model_input,  \* the vector last returned by get_model_input
    clock,        \* the timestamp of the latest call
    op,           \* the operation that made the latest step
    runs,         \* history: lengths of the finished below-threshold runs fed to the detector
    cur_run,      \* history: length of the below-threshold run in progress
    events,       \* history: the events the detector returned
    fed,          \* history: the average-EAR values passed to TemporalFeatureExtractor.update
    blinks_added, \* history: the timestamps passed to add_blink
    n_frames,     \* history: the number of frames given to extract
    frame_period, \* the seconds between two frames of the session
    sample,       \* history: the EAR last fed to the detector (none: <<>>)
    run_times,    \* history: per below-threshold run, the timestamp of its
                  \* first sample and, once it ended, of the sample ending it
    frame_in,     \* history: the frame last given to extract
    twin,         \* two TemporalFeatureExtractor objects and the heap they live in
    calc          \* a call of calculate_ear: its argument and its outcome

vars == <<bd, tfe, features, blink_event, temporal, model_input, clock, op,
          runs, cur_run, events, fed, blinks_added, n_frames, frame_period,
          sample, run_times, frame_in, twin, calc>>

\* the variables of the two-object and the calculate_ear scenarios
others == <<twin, calc>>

\* Python's None
None == [none |-> TRUE]

(***************************************************************************)
(* Bounds of the model.                                                    *)
(***************************************************************************)
\* a below-threshold run is fed for at most max_frames + Slack samples
Slack == 3
\* number of below-threshold runs fed to a stand-alone detector
MaxRuns == 2
\* number of update calls on a stand-alone temporal extractor
MaxUpdates == 5
\* number of add_blink calls on a stand-alone temporal extractor
MaxBlinks == 3
\* number of frames given to the pipeline
MaxFrames == 4
\* the longest list of points given to calculate_ear
MaxPoints == 7
\* number of add_blink calls beyond the capacity of the blink window
ExtraBlinks == 2
\* number of update calls between the add_blink calls of a long session
MaxProbes == 3
\* number of calls made on each of two extractors side by side
MaxTwinCalls == 4

\* timestamps, in seconds, the callers pass (never decreasing)
Timestamps == {0, 30, 60, 90}

\* EAR samples (thousandths) fed to the stand-alone detector and extractor:
\* below, at and above the default threshold
EarSamples == {100, 210, 300}

(***************************************************************************)
(* Program constants.                                                      *)
(***************************************************************************)
DefaultThreshold == 210
DefaultMinFrames == 2
DefaultMaxFrames == 12
DefaultWindowSize == 30
BlinkTimesMaxlen == 100
PerclosThreshold == 210
EyesClosedThreshold == 210
OneMinute == 60
DefaultEarMean == 300
DefaultBlinkRate == 17
NoBlinkRate == 17
AngleNorm == 90
BlinkRateNorm == 30
DetectedConfidence == 900
\* the blink length the BlinkDetector class documentation gives, in frames
DocMinFrames == 1
DocMaxFrames == 10

(***************************************************************************)
(* Arithmetic helpers.                                                     *)
(***************************************************************************)
Abs(x) == IF x < 0 THEN -x ELSE x

Min(a, b) == IF a <= b THEN a ELSE b

RECURSIVE GCD(_, _)
GCD(a, b) == IF b = 0 THEN a ELSE GCD(b, a % b)

\* the fraction n/d (d > 0) in lowest terms
Frac(n, d) ==
    LET g == GCD(Abs(n), d)
    IN  IF g = 0 THEN <<0, 1>> ELSE <<n \div g, d \div g>>

\* the square root of the fraction q, kept exact
SqrtOf(q) == [sqrt_of |-> q]

RECURSIVE SumSeq(_)
SumSeq(s) == IF s = <<>> THEN 0 ELSE Head(s) + SumSeq(Tail(s))

RECURSIVE SumSq(_)
SumSq(s) == IF s = <<>> THEN 0 ELSE Head(s) * Head(s) + SumSq(Tail(s))

\* an unbounded list in place of the deque
DequeAppend_Unbounded(q, x, m) == Append(q, x)

\* collections.deque(maxlen = m).append(x)
DequeAppend(q, x, m) ==
    IF m = 0 THEN <<>>
    ELSE IF Len(q) < m THEN Append(q, x)
    ELSE Append(Tail(q), x)

(***************************************************************************)
(* BlinkDetector                                                           *)
(***************************************************************************)
\* BlinkDetector.__init__
BlinkDetector_init(threshold, min_frames, max_frames) ==
    [threshold |-> threshold, min_frames |-> min_frames, max_frames |-> max_frames,
     below_threshold |-> FALSE, frame_count |-> 0, blink_start_time |-> 0]

\* BlinkDetector.update with the upper bound compared strictly
BlinkDetector_update_StrictMax(self, ear, timestamp) ==
    IF ear < self.threshold
    THEN IF ~self.below_threshold
         THEN [self |-> [self EXCEPT !.below_threshold = TRUE,
                                     !.frame_count = 1,
                                     !.blink_start_time = timestamp],
               ret |-> None]
         ELSE [self |-> [self EXCEPT !.frame_count = @ + 1], ret |-> None]
    ELSE IF self.below_threshold
         THEN IF self.min_frames <= self.frame_count
                   /\ self.frame_count < self.max_frames
              THEN [self |-> [self EXCEPT !.below_threshold = FALSE,
                                          !.frame_count = 0],
                    ret |-> [start_time |-> self.blink_start_time,
                             end_time |-> timestamp,
                             duration_frames |-> self.frame_count,
                             is_complete |-> TRUE]]
              ELSE [self |-> [self EXCEPT !.below_threshold = FALSE,
                                          !.frame_count = 0],
                    ret |-> None]
         ELSE [self |-> self, ret |-> None]

\* BlinkDetector.update without the upper bound on the frame count
BlinkDetector_update_NoMax(self, ear, timestamp) ==
    IF ear < self.threshold
    THEN IF ~self.below_threshold
         THEN [self |-> [self EXCEPT !.below_threshold = TRUE,
                                     !.frame_count = 1,
                                     !.blink_start_time = timestamp],
               ret |-> None]
         ELSE [self |-> [self EXCEPT !.frame_count = @ + 1], ret |-> None]
    ELSE IF self.below_threshold
         THEN IF self.min_frames <= self.frame_count
              THEN [self |-> [self EXCEPT !.below_threshold = FALSE,
                                          !.frame_count = 0],
                    ret |-> [start_time |-> self.blink_start_time,
                             end_time |-> timestamp,
                             duration_frames |-> self.frame_count,
                             is_complete |-> TRUE]]
              ELSE [self |-> [self EXCEPT !.below_threshold = FALSE,
                                          !.frame_count = 0],
                    ret |-> None]
         ELSE [self |-> self, ret |-> None]

\* BlinkDetector.update counting a sample at the threshold as below it
BlinkDetector_update_Inclusive(self, ear, timestamp) ==
    IF ear <= self.threshold
    THEN IF ~self.below_threshold
         THEN [self |-> [self EXCEPT !.below_threshold = TRUE,
                                     !.frame_count = 1,
                                     !.blink_start_time = timestamp],
               ret |-> None]
         ELSE [self |-> [self EXCEPT !.frame_count = @ + 1], ret |-> None]
    ELSE IF self.below_threshold
         THEN IF self.min_frames <= self.frame_count
                   /\ self.frame_count <= self.max_frames
              THEN [self |-> [self EXCEPT !.below_threshold = FALSE,
                                          !.frame_count = 0],
                    ret |-> [start_time |-> self.blink_start_time,
                             end_time |-> timestamp,
                             duration_frames |-> self.frame_count,
                             is_complete |-> TRUE]]
              ELSE [self |-> [self EXCEPT !.below_threshold = FALSE,
                                          !.frame_count = 0],
                    ret |-> None]
         ELSE [self |-> self, ret |-> None]

\* BlinkDetector.update with the counter stopping at max_frames
BlinkDetector_update_Capped(self, ear, timestamp) ==
    IF ear < self.threshold
    THEN IF ~self.below_threshold
         THEN [self |-> [self EXCEPT !.below_threshold = TRUE,
                                     !.frame_count = 1,
                                     !.blink_start_time = timestamp],
               ret |-> None]
         ELSE [self |-> [self EXCEPT !.frame_count =
                                         IF @ < self.max_frames THEN @ + 1 ELSE @],
               ret |-> None]
    ELSE IF self.below_threshold
         THEN IF self.min_frames <= self.frame_count
                   /\ self.frame_count <= self.max_frames
              THEN [self |-> [self EXCEPT !.below_threshold = FALSE,
                                          !.frame_count = 0],
                    ret |-> [start_time |-> self.blink_start_time,
                             end_time |-> timestamp,
                             duration_frames |-> self.frame_count,
                             is_complete |-> TRUE]]
              ELSE [self |-> [self EXCEPT !.below_threshold = FALSE,
                                          !.frame_count = 0],
                    ret |-> None]
         ELSE [self |-> self, ret |-> None]

\* BlinkDetector.update noting the timestamp of every open-eyes sample
BlinkDetector_update_Touching(self, ear, timestamp) ==
    IF ear < self.threshold
    THEN IF ~self.below_threshold
         THEN [self |-> [self EXCEPT !.below_threshold = TRUE,
                                     !.frame_count = 1,
                                     !.blink_start_time = timestamp],
               ret |-> None]
         ELSE [self |-> [self EXCEPT !.frame_count = @ + 1], ret |-> None]
    ELSE IF self.below_threshold
         THEN IF self.min_frames <= self.frame_count
                   /\ self.frame_count <= self.max_frames
              THEN [self |-> [self EXCEPT !.below_threshold = FALSE,
                                          !.frame_count = 0],
                    ret |-> [start_time |-> self.blink_start_time,
                             end_time |-> timestamp,
                             duration_frames |-> self.frame_count,
                             is_complete |-> TRUE]]
              ELSE [self |-> [self EXCEPT !.below_threshold = FALSE,
                                          !.frame_count = 0],
                    ret |-> None]
         ELSE [self |-> [self EXCEPT !.blink_start_time = timestamp],
               ret |-> None]

\* BlinkDetector.update stamping the event with the end time on both sides
BlinkDetector_update_EndStart(self, ear, timestamp) ==
    IF ear < self.threshold
    THEN IF ~self.below_threshold
         THEN [self |-> [self EXCEPT !.below_threshold = TRUE,
                                     !.frame_count = 1,
                                     !.blink_start_time = timestamp],
               ret |-> None]
         ELSE [self |-> [self EXCEPT !.frame_count = @ + 1], ret |-> None]
    ELSE IF self.below_threshold
         THEN IF self.min_frames <= self.frame_count
                   /\ self.frame_count <= self.max_frames
              THEN [self |-> [self EXCEPT !.below_threshold = FALSE,
                                          !.frame_count = 0],
                    ret |-> [start_time |-> timestamp,
                             end_time |-> timestamp,
                             duration_frames |-> self.frame_count,
                             is_complete |-> TRUE]]
              ELSE [self |-> [self EXCEPT !.below_threshold = FALSE,
                                          !.frame_count = 0],
                    ret |-> None]
         ELSE [self |-> self, ret |-> None]

\* BlinkDetector.update giving up an excursion that lasted more than a
\* minute of wall-clock time
BlinkDetector_update_Timeout(self, ear, timestamp) ==
    IF ear < self.threshold
    THEN IF ~self.below_threshold
         THEN [self |-> [self EXCEPT !.below_threshold = TRUE,
                                     !.frame_count = 1,
                                     !.blink_start_time = timestamp],
               ret |-> None]
         ELSE [self |-> [self EXCEPT !.frame_count = @ + 1], ret |-> None]
    ELSE IF self.below_threshold
         THEN IF self.min_frames <= self.frame_count
                   /\ self.frame_count <= self.max_frames
                   /\ timestamp - self.blink_start_time <= 60
              THEN [self |-> [self EXCEPT !.below_threshold = FALSE,
                                          !.frame_count = 0],
                    ret |-> [start_time |-> self.blink_start_time,
                             end_time |-> timestamp,
                             duration_frames |-> self.frame_count,
                             is_complete |-> TRUE]]
              ELSE [self |-> [self EXCEPT !.below_threshold = FALSE,
                                          !.frame_count = 0],
                    ret |-> None]
         ELSE [self |-> self, ret |-> None]

\* BlinkDetector.update keeping the counter of a rejected excursion
BlinkDetector_update_StaleCounter(self, ear, timestamp) ==
    IF ear < self.threshold
    THEN IF ~self.below_threshold
         THEN [self |-> [self EXCEPT !.below_threshold = TRUE,
                                     !.frame_count = 1,
                                     !.blink_start_time = timestamp],
               ret |-> None]
         ELSE [self |-> [self EXCEPT !.frame_count = @ + 1], ret |-> None]
    ELSE IF self.below_threshold
         THEN IF self.min_frames <= self.frame_count
                   /\ self.frame_count <= self.max_frames
              THEN [self |-> [self EXCEPT !.below_threshold = FALSE,
                                          !.frame_count = 0],
                    ret |-> [start_time |-> self.blink_start_time,
                             end_time |-> timestamp,
                             duration_frames |-> self.frame_count,
                             is_complete |-> TRUE]]
              ELSE [self |-> [self EXCEPT !.below_threshold = FALSE],
                    ret |-> None]
         ELSE [self |-> self, ret |-> None]

\* BlinkDetector.update: the detector after the call and the value returned
BlinkDetector_update(self, ear, timestamp) ==
    IF ear < self.threshold
    THEN IF ~self.below_threshold
         THEN [self |-> [self EXCEPT !.below_threshold = TRUE,
                                     !.frame_count = 1,
                                     !.blink_start_time = timestamp],
               ret |-> None]
         ELSE [self |-> [self EXCEPT !.frame_count = @ + 1], ret |-> None]
    ELSE IF self.below_threshold
         THEN IF self.min_frames <= self.frame_count
                   /\ self.frame_count <= self.max_frames
              THEN [self |-> [self EXCEPT !.below_threshold = FALSE,
                                          !.frame_count = 0],
                    ret |-> [start_time |-> self.blink_start_time,
                             end_time |-> timestamp,
                             duration_frames |-> self.frame_count,
                             is_complete |-> TRUE]]
              ELSE [self |-> [self EXCEPT !.below_threshold = FALSE,
                                          !.frame_count = 0],
                    ret |-> None]
         ELSE [self |-> self, ret |-> None]

(***************************************************************************)
(* TemporalFeatureExtractor                                                *)
(***************************************************************************)
\* TemporalFeatureExtractor.__init__ (fps is stored and never read)
TemporalFeatureExtractor_init(window_size) ==
    [window_size |-> window_size, ear_history |-> <<>>, blink_times |-> <<>>]

\* TemporalFeatureExtractor._default_features
_default_features ==
    [ear_mean |-> Frac(DefaultEarMean, 1),
     ear_std |-> SqrtOf(Frac(0, 1)),
     ear_derivative |-> Frac(0, 1),
     perclos |-> Frac(0, 1),
     blink_rate |-> Frac(DefaultBlinkRate, 1)]

\* _compute_derivative taking the central difference, as np.gradient does
\* at an interior sample
_compute_derivative_Central(arr) ==
    IF Len(arr) < 2 THEN Frac(0, 1)
    ELSE IF Len(arr) < 3 THEN Frac(arr[Len(arr)] - arr[Len(arr) - 1], 1)
    ELSE Frac(arr[Len(arr)] - arr[Len(arr) - 2], 2)

\* TemporalFeatureExtractor._compute_derivative: np.gradient(arr)[-1], the
\* first-order backward difference at the last sample (unit spacing)
_compute_derivative(arr) ==
    IF Len(arr) < 2 THEN Frac(0, 1)
    ELSE Frac(arr[Len(arr)] - arr[Len(arr) - 1], 1)

\* _compute_perclos counting the samples at the threshold as closed
_compute_perclos_Inclusive(ear_array) ==
    Frac(Cardinality({i \in 1..Len(ear_array) : ear_array[i] <= PerclosThreshold}),
         Len(ear_array))

\* TemporalFeatureExtractor._compute_perclos (threshold left at its default)
_compute_perclos(ear_array) ==
    Frac(Cardinality({i \in 1..Len(ear_array) : ear_array[i] < PerclosThreshold}),
         Len(ear_array))

\* _compute_blink_rate counting every blink of the window
_compute_blink_rate_All(self) ==
    IF self.blink_times = <<>> THEN Frac(NoBlinkRate, 1)
    ELSE Frac(Len(self.blink_times), 1)

\* TemporalFeatureExtractor._compute_blink_rate
_compute_blink_rate(self) ==
    IF self.blink_times = <<>> THEN Frac(NoBlinkRate, 1)
    ELSE LET current_time == self.blink_times[Len(self.blink_times)]
             one_minute_ago == current_time - OneMinute
             recent_blinks == {i \in 1..Len(self.blink_times) :
                                  self.blink_times[i] > one_minute_ago}
         IN  Frac(Cardinality(recent_blinks), 1)

\* np.mean(ear_array)
np_mean(ear_array) == Frac(SumSeq(ear_array), Len(ear_array))

\* np.std(ear_array): the population standard deviation
np_std(ear_array) ==
    LET n == Len(ear_array)
        s == SumSeq(ear_array)
    IN  SqrtOf(Frac(n * SumSq(ear_array) - s * s, n * n))

\* add_blink keeping every timestamp
add_blink_Unbounded(self, timestamp) ==
    [self EXCEPT !.blink_times = Append(@, timestamp)]

\* TemporalFeatureExtractor.add_blink: the extractor after the call
add_blink(self, timestamp) ==
    [self EXCEPT !.blink_times = DequeAppend(@, timestamp, BlinkTimesMaxlen)]

\* TemporalFeatureExtractor.update computing the summary from two samples on
TemporalFeatureExtractor_update_TwoSamples(self, f) ==
    LET hist == DequeAppend(self.ear_history, f.average_ear, self.window_size)
        new  == [self EXCEPT !.ear_history = hist]
    IN  IF Len(hist) < 2
        THEN [self |-> new, ret |-> _default_features]
        ELSE [self |-> new,
              ret |-> [ear_mean |-> np_mean(hist),
                       ear_std |-> np_std(hist),
                       ear_derivative |-> _compute_derivative(hist),
                       perclos |-> _compute_perclos(hist),
                       blink_rate |-> _compute_blink_rate(new)]]

\* TemporalFeatureExtractor.update counting the blinks of the last minute
\* before the frame, and none giving the rate of a session without blinks
TemporalFeatureExtractor_update_AnchoredNow(self, f) ==
    LET hist == DequeAppend(self.ear_history, f.average_ear, self.window_size)
        new  == [self EXCEPT !.ear_history = hist]
        recent_blinks == {i \in 1..Len(self.blink_times) :
                             self.blink_times[i] > f.timestamp - OneMinute}
    IN  IF Len(hist) < 3
        THEN [self |-> new, ret |-> _default_features]
        ELSE [self |-> new,
              ret |-> [ear_mean |-> np_mean(hist),
                       ear_std |-> np_std(hist),
                       ear_derivative |-> _compute_derivative(hist),
                       perclos |-> _compute_perclos(hist),
                       blink_rate |-> IF recent_blinks = {}
                                      THEN Frac(NoBlinkRate, 1)
                                      ELSE Frac(Cardinality(recent_blinks), 1)]]

\* TemporalFeatureExtractor.update: the extractor after the call and the
\* dictionary returned
TemporalFeatureExtractor_update(self, f) ==
    LET hist == DequeAppend(self.ear_history, f.average_ear, self.window_size)
        new  == [self EXCEPT !.ear_history = hist]
    IN  IF Len(hist) < 3
        THEN [self |-> new, ret |-> _default_features]
        ELSE [self |-> new,
              ret |-> [ear_mean |-> np_mean(hist),
                       ear_std |-> np_std(hist),
                       ear_derivative |-> _compute_derivative(hist),
                       perclos |-> _compute_perclos(hist),
                       blink_rate |-> _compute_blink_rate(new)]]

(***************************************************************************)
(* EyeAspectRatioCalculator                                                *)
(***************************************************************************)
LEFT_EYE_INDICES == <<362, 385, 387, 263, 373, 380>>

RIGHT_EYE_INDICES == <<33, 160, 158, 133, 153, 144>>

\* the integer square root (exact on the perfect squares the frames produce)
RECURSIVE SqrtSearch(_, _, _)
SqrtSearch(n, lo, hi) ==
    IF lo >= hi THEN lo
    ELSE LET mid == (lo + hi + 1) \div 2
         IN  IF mid * mid <= n THEN SqrtSearch(n, mid, hi)
             ELSE SqrtSearch(n, lo, mid - 1)

\* EyeAspectRatioCalculator.euclidean_distance, in grid units
euclidean_distance(p1, p2) ==
    LET dx == p2[1] - p1[1]
        dy == p2[2] - p1[2]
    IN  SqrtSearch(dx * dx + dy * dy, 0, Abs(dx) + Abs(dy))

\* calculate_ear returning 0 only when the horizontal distance is exactly 0
calculate_ear_at_ZeroOnly(eye_landmarks, resolution) ==
    LET v1 == euclidean_distance(eye_landmarks[2], eye_landmarks[6])
        v2 == euclidean_distance(eye_landmarks[3], eye_landmarks[5])
        h  == euclidean_distance(eye_landmarks[1], eye_landmarks[4])
    IN  IF h = 0 THEN 0
        ELSE (1000 * (v1 + v2)) \div (2 * h)

\* calculate_ear pairing p2 with p5 and p3 with p6
calculate_ear_at_Crossed(eye_landmarks, resolution) ==
    LET v1 == euclidean_distance(eye_landmarks[2], eye_landmarks[5])
        v2 == euclidean_distance(eye_landmarks[3], eye_landmarks[6])
        h  == euclidean_distance(eye_landmarks[1], eye_landmarks[4])
    IN  IF h * 1000000 < resolution THEN 0
        ELSE (1000 * (v1 + v2)) \div (2 * h)

\* EyeAspectRatioCalculator.calculate_ear past its length check, in
\* thousandths, on points given in grid units of 1/resolution: the distance h
\* grid units is h / resolution, so h < 1e-6 reads h * 1000000 < resolution.
calculate_ear_at(eye_landmarks, resolution) ==
    LET v1 == euclidean_distance(eye_landmarks[2], eye_landmarks[6])
        v2 == euclidean_distance(eye_landmarks[3], eye_landmarks[5])
        h  == euclidean_distance(eye_landmarks[1], eye_landmarks[4])
    IN  IF h * 1000000 < resolution THEN 0
        ELSE (1000 * (v1 + v2)) \div (2 * h)

\* calculate_ear on the landmarks of a frame, whose grid unit is 1/100 of
\* the frame
calculate_ear(eye_landmarks) == calculate_ear_at(eye_landmarks, 100)

\* the length check of calculate_ear accepting more than 6 points
calculate_ear_raises_Short(eye_landmarks) == Len(eye_landmarks) < 6

\* EyeAspectRatioCalculator.calculate_ear: whether the call raises ValueError
calculate_ear_raises(eye_landmarks) == Len(eye_landmarks) # 6

\* extract_eye_landmarks losing the last point of the eye
extract_eye_landmarks_Short(face_landmarks, eye_indices) ==
    [k \in 1..(Len(eye_indices) - 1) |->
        <<face_landmarks[eye_indices[k]][1], face_landmarks[eye_indices[k]][2]>>]

\* EyeAspectRatioCalculator.extract_eye_landmarks
extract_eye_landmarks(face_landmarks, eye_indices) ==
    [k \in 1..Len(eye_indices) |->
        <<face_landmarks[eye_indices[k]][1], face_landmarks[eye_indices[k]][2]>>]

(***************************************************************************)
(* HeadPoseEstimator                                                       *)
(***************************************************************************)
\* estimate reading the angles without looking at the success flag
estimate_Unchecked(face_landmarks, pnp) ==
    <<pnp.euler_angles[2], pnp.euler_angles[1], pnp.euler_angles[3]>>

\* HeadPoseEstimator.estimate.  cv2.solvePnP and the decomposition of its
\* result are external: pnp is what they return for the frame, a success
\* flag and the Euler angles <<pitch, yaw, roll>> in whole degrees.
estimate(face_landmarks, pnp) ==
    IF ~pnp.success THEN <<0, 0, 0>>
    ELSE <<pnp.euler_angles[2], pnp.euler_angles[1], pnp.euler_angles[3]>>

(***************************************************************************)
(* FacialFeatures                                                          *)
(***************************************************************************)
\* to_array with the eyes-closed indicator set at the threshold too
to_array_Inclusive(self) ==
    <<Frac(self.average_ear, 1),
      Frac(self.yaw, AngleNorm),
      Frac(self.pitch, AngleNorm),
      Frac(self.roll, AngleNorm),
      IF self.average_ear <= EyesClosedThreshold THEN Frac(1, 1) ELSE Frac(0, 1)>>

\* FacialFeatures.to_array
to_array(self) ==
    <<Frac(self.average_ear, 1),
      Frac(self.yaw, AngleNorm),
      Frac(self.pitch, AngleNorm),
      Frac(self.roll, AngleNorm),
      IF self.average_ear < EyesClosedThreshold THEN Frac(1, 1) ELSE Frac(0, 1)>>

(***************************************************************************)
(* FeatureExtractor                                                        *)
(***************************************************************************)
\* the no-face branch of extract, calling the temporal extractor's update
\* before it returns
extract_no_face_Updating(self_bd, self_tfe, timestamp) ==
    LET f == [left_ear |-> 0, right_ear |-> 0, average_ear |-> 0,
              yaw |-> 0, pitch |-> 0, roll |-> 0,
              face_detected |-> FALSE, confidence |-> 0,
              timestamp |-> timestamp]
        u == TemporalFeatureExtractor_update(self_tfe, f)
    IN  [bd |-> self_bd, tfe |-> u.self, ret |-> f,
         blink_event |-> None, temporal |-> u.ret, raised |-> FALSE,
         bd_calls |-> <<>>, add_blink_calls |-> <<>>,
         update_calls |-> <<0>>]

\* extract giving the zero EAR of a frame without a face to the blink detector
extract_no_face_Detecting(self_bd, self_tfe, timestamp) ==
    LET b == BlinkDetector_update(self_bd, 0, timestamp)
    IN  [bd |-> b.self, tfe |-> self_tfe,
         ret |-> [left_ear |-> 0, right_ear |-> 0, average_ear |-> 0,
                  yaw |-> 0, pitch |-> 0, roll |-> 0,
                  face_detected |-> FALSE, confidence |-> 0,
                  timestamp |-> timestamp],
         blink_event |-> b.ret, temporal |-> None, raised |-> FALSE,
         bd_calls |-> <<0>>, add_blink_calls |-> <<>>, update_calls |-> <<>>]

\* FeatureExtractor.extract on a frame in which face_mesh.process found no face
extract_no_face(self_bd, self_tfe, timestamp) ==
    [bd |-> self_bd, tfe |-> self_tfe,
     ret |-> [left_ear |-> 0, right_ear |-> 0, average_ear |-> 0,
              yaw |-> 0, pitch |-> 0, roll |-> 0,
              face_detected |-> FALSE, confidence |-> 0,
              timestamp |-> timestamp],
     blink_event |-> None, temporal |-> None, raised |-> FALSE,
     bd_calls |-> <<>>, add_blink_calls |-> <<>>, update_calls |-> <<>>]

\* extract recording a blink on every frame that finds the eyes open again
extract_face_EagerBlink(self_bd, self_tfe, frame, timestamp) ==
    LET face_landmarks == frame.landmarks
        left_eye  == extract_eye_landmarks(face_landmarks, LEFT_EYE_INDICES)
        right_eye == extract_eye_landmarks(face_landmarks, RIGHT_EYE_INDICES)
        left_ear  == calculate_ear(left_eye)
        right_ear == calculate_ear(right_eye)
        average_ear == (left_ear + right_ear) \div 2
        pose == estimate(face_landmarks, frame.pnp)
        f == [left_ear |-> left_ear, right_ear |-> right_ear,
              average_ear |-> average_ear,
              yaw |-> pose[1], pitch |-> pose[2], roll |-> pose[3],
              face_detected |-> TRUE, confidence |-> DetectedConfidence,
              timestamp |-> timestamp]
        b == BlinkDetector_update(self_bd, average_ear, timestamp)
        closes == self_bd.below_threshold /\ ~b.self.below_threshold
        t1 == IF closes THEN add_blink(self_tfe, timestamp) ELSE self_tfe
        u == TemporalFeatureExtractor_update(t1, f)
    IN  [bd |-> b.self, tfe |-> u.self, ret |-> f,
         blink_event |-> b.ret, temporal |-> u.ret, raised |-> FALSE,
         bd_calls |-> <<average_ear>>,
         add_blink_calls |-> IF closes THEN <<timestamp>> ELSE <<>>,
         update_calls |-> <<average_ear>>]

\* extract refreshing the summary before it records the blink
extract_face_LateBlink(self_bd, self_tfe, frame, timestamp) ==
    LET face_landmarks == frame.landmarks
        left_eye  == extract_eye_landmarks(face_landmarks, LEFT_EYE_INDICES)
        right_eye == extract_eye_landmarks(face_landmarks, RIGHT_EYE_INDICES)
        left_ear  == calculate_ear(left_eye)
        right_ear == calculate_ear(right_eye)
        average_ear == (left_ear + right_ear) \div 2
        pose == estimate(face_landmarks, frame.pnp)
        f == [left_ear |-> left_ear, right_ear |-> right_ear,
              average_ear |-> average_ear,
              yaw |-> pose[1], pitch |-> pose[2], roll |-> pose[3],
              face_detected |-> TRUE, confidence |-> DetectedConfidence,
              timestamp |-> timestamp]
        b == BlinkDetector_update(self_bd, average_ear, timestamp)
        u == TemporalFeatureExtractor_update(self_tfe, f)
        t1 == IF b.ret # None THEN add_blink(u.self, timestamp) ELSE u.self
    IN  [bd |-> b.self, tfe |-> t1, ret |-> f,
         blink_event |-> b.ret, temporal |-> u.ret, raised |-> FALSE,
         bd_calls |-> <<average_ear>>,
         add_blink_calls |-> IF b.ret # None THEN <<timestamp>> ELSE <<>>,
         update_calls |-> <<average_ear>>]

\* FeatureExtractor.extract on a frame with a face: the two sub-extractors
\* after the call, the record returned, and the calls made on the way.  A
\* ValueError of calculate_ear is not caught: it leaves extract before any
\* sub-extractor is called.
extract_face(self_bd, self_tfe, frame, timestamp) ==
    LET face_landmarks == frame.landmarks
        left_eye  == extract_eye_landmarks(face_landmarks, LEFT_EYE_INDICES)
        right_eye == extract_eye_landmarks(face_landmarks, RIGHT_EYE_INDICES)
        left_ear  == calculate_ear(left_eye)
        right_ear == calculate_ear(right_eye)
        average_ear == (left_ear + right_ear) \div 2
        pose == estimate(face_landmarks, frame.pnp)
        f == [left_ear |-> left_ear, right_ear |-> right_ear,
              average_ear |-> average_ear,
              yaw |-> pose[1], pitch |-> pose[2], roll |-> pose[3],
              face_detected |-> TRUE, confidence |-> DetectedConfidence,
              timestamp |-> timestamp]
        b == BlinkDetector_update(self_bd, average_ear, timestamp)
        t1 == IF b.ret # None THEN add_blink(self_tfe, timestamp) ELSE self_tfe
        u == TemporalFeatureExtractor_update(t1, f)
    IN  IF calculate_ear_raises(left_eye) \/ calculate_ear_raises(right_eye)
        THEN [bd |-> self_bd, tfe |-> self_tfe, ret |-> None,
              blink_event |-> None, temporal |-> None, raised |-> TRUE,
              bd_calls |-> <<>>, add_blink_calls |-> <<>>,
              update_calls |-> <<>>]
        ELSE [bd |-> b.self, tfe |-> u.self, ret |-> f,
              blink_event |-> b.ret, temporal |-> u.ret, raised |-> FALSE,
              bd_calls |-> <<average_ear>>,
              add_blink_calls |-> IF b.ret # None THEN <<timestamp>> ELSE <<>>,
              update_calls |-> <<average_ear>>]

\* FeatureExtractor.extract
extract(self_bd, self_tfe, frame, timestamp) ==
    IF ~frame.detected
    THEN extract_no_face(self_bd, self_tfe, timestamp)
    ELSE extract_face(self_bd, self_tfe, frame, timestamp)

\* FeatureExtractor.get_model_input: the temporal extractor after the call
\* and the vector returned
get_model_input(self_tfe, f) ==
    LET base_features == to_array(f)
        u == TemporalFeatureExtractor_update(self_tfe, f)
        t == u.ret
    IN  [tfe |-> u.self, temporal |-> t,
         ret |-> base_features \o
                 <<t.ear_mean, t.ear_std, t.ear_derivative, t.perclos,
                   Frac(t.blink_rate[1], t.blink_rate[2] * BlinkRateNorm)>>,
         update_calls |-> <<f.average_ear>>]

(***************************************************************************)
(* Inputs: the frames the landmark provider and the PnP solver hand over.  *)
(***************************************************************************)
\* six eye points in the order p1..p6, with horizontal distance h and
\* vertical distances v1 (p2-p6) and v2 (p3-p5), starting at column x0
EyeShape(x0, h, v1, v2) ==
    <<  <<x0, 0>>, <<x0 + 1, 0>>, <<x0 + 2, 0>>,
        <<x0 + h, 0>>, <<x0 + 2, v2>>, <<x0 + 1, v1>>  >>

LandmarkIndices ==
    {LEFT_EYE_INDICES[k] : k \in 1..6} \cup {RIGHT_EYE_INDICES[k] : k \in 1..6}

\* the face mesh whose left and right eyes have the given shapes
Face(left, right) ==
    [i \in LandmarkIndices |->
        IF \E k \in 1..6 : LEFT_EYE_INDICES[k] = i
        THEN LET k == CHOOSE k \in 1..6 : LEFT_EYE_INDICES[k] = i
             IN  <<left[k][1], left[k][2], 0>>
        ELSE LET k == CHOOSE k \in 1..6 : RIGHT_EYE_INDICES[k] = i
             IN  <<right[k][1], right[k][2], 0>>]

\* a failed solve: the rotation it leaves behind means nothing
PnpFailure == [success |-> FALSE, euler_angles |-> <<12, -20, 5>>]

PnpResult(pitch, yaw, roll) == [success |-> TRUE, euler_angles |-> <<pitch, yaw, roll>>]

Detected(left, right, pnp) ==
    [detected |-> TRUE, landmarks |-> Face(left, right), pnp |-> pnp]

NoFaceFrame == [detected |-> FALSE]

\* eyes open (EAR 0.30), head turned
OpenFrame == Detected(EyeShape(0, 50, 15, 15), EyeShape(50, 50, 15, 15), PnpResult(-9, 45, 30))

\* eyes closed (EAR 0.10), the solver fails
ClosedFrame == Detected(EyeShape(0, 50, 5, 5), EyeShape(50, 50, 5, 5), PnpFailure)

\* average EAR exactly 0.21 (left 0.22, right 0.20)
ThresholdFrame == Detected(EyeShape(0, 50, 11, 11), EyeShape(50, 50, 10, 10), PnpResult(0, -90, 0))

\* corrupted landmarks: the eyes taller than wide (EAR 2.0)
CorruptFrame == Detected(EyeShape(0, 50, 100, 100), EyeShape(50, 50, 100, 100), PnpResult(0, 0, 0))

\* degenerate left eye (zero width, EAR 0.0), right eye open at 0.30
DegenerateFrame == Detected(EyeShape(0, 0, 15, 15), EyeShape(50, 50, 15, 15), PnpFailure)

Frames == {NoFaceFrame, OpenFrame, ClosedFrame, ThresholdFrame, CorruptFrame, DegenerateFrame}

\* a FacialFeatures record as a caller of the stand-alone extractor builds it
SampleFeatures(ear, timestamp) ==
    [left_ear |-> ear, right_ear |-> ear, average_ear |-> ear,
     yaw |-> 0, pitch |-> 0, roll |-> 0,
     face_detected |-> TRUE, confidence |-> DetectedConfidence,
     timestamp |-> timestamp]

\* detector configurations <<threshold, min_frames, max_frames>>: the
\* defaults and two narrow ones
Configs == {<<DefaultThreshold, DefaultMinFrames, DefaultMaxFrames>>,
            <<210, 1, 2>>, <<300, 2, 3>>}

\* window capacities of the stand-alone temporal extractor
WindowSizes == {2, 3}

(***************************************************************************)
(* History of the calls made, kept beside the program's state.             *)
(***************************************************************************)
\* the run lengths after the detector was fed the samples of calls
RECURSIVE RunsAfter(_, _, _, _)
RunsAfter(rs, cur, thr, calls) ==
    IF calls = <<>> THEN [runs |-> rs, cur_run |-> cur]
    ELSE IF Head(calls) < thr
         THEN RunsAfter(rs, cur + 1, thr, Tail(calls))
         ELSE RunsAfter(IF cur > 0 THEN Append(rs, cur) ELSE rs, 0, thr, Tail(calls))

\* the run timestamps after the detector was fed the sample of calls (at
\* most one) with the given timestamp, cur samples into a run
TimesAfter(rt, cur, thr, calls, timestamp) ==
    IF calls = <<>> THEN rt
    ELSE IF Head(calls) < thr
         THEN IF cur = 0 THEN Append(rt, <<timestamp>>) ELSE rt
         ELSE IF cur > 0 THEN [rt EXCEPT ![Len(rt)] = Append(@, timestamp)]
              ELSE rt

\* the event history after a detector call that returned ret, closing run number r
EventsAfter(ev, ret, r) ==
    IF ret = None THEN ev ELSE Append(ev, [run |-> r, event |-> ret])

InitHistory ==
    /\ features = None
    /\ blink_event = None
    /\ temporal = None
    /\ model_input = <<>>
    /\ clock = 0
    /\ op = "init"
    /\ runs = <<>>
    /\ cur_run = 0
    /\ events = <<>>
    /\ fed = <<>>
    /\ blinks_added = <<>>
    /\ n_frames = 0
    /\ sample = <<>>
    /\ run_times = <<>>
    /\ frame_in = None

InitCommon ==
    /\ InitHistory
    /\ twin = None
    /\ calc = None

(***************************************************************************)
(* A stand-alone BlinkDetector fed an EAR stream.                          *)
(***************************************************************************)
InitBD ==
    /\ \E c \in Configs : bd = BlinkDetector_init(c[1], c[2], c[3])
    /\ tfe = TemporalFeatureExtractor_init(DefaultWindowSize)
    /\ frame_period = 0
    /\ InitCommon

BDUpdate ==
    \E ear \in EarSamples, timestamp \in Timestamps :
        /\ timestamp >= clock
        /\ ear < bd.threshold =>
              /\ cur_run < bd.max_frames + Slack
              /\ cur_run = 0 => Len(runs) < MaxRuns
        /\ \E r \in {BlinkDetector_update(bd, ear, timestamp)} :
           LET g == RunsAfter(runs, cur_run, bd.threshold, <<ear>>)
           IN  /\ bd' = r.self
               /\ blink_event' = r.ret
               /\ runs' = g.runs
               /\ cur_run' = g.cur_run
               /\ events' = EventsAfter(events, r.ret, Len(g.runs))
        /\ clock' = timestamp
        /\ sample' = <<ear>>
        /\ run_times' = TimesAfter(run_times, cur_run, bd.threshold, <<ear>>,
                                   timestamp)
        /\ op' = "bd_update"
        /\ UNCHANGED <<tfe, features, temporal, model_input, fed, blinks_added,
                       n_frames, frame_period, frame_in, others>>

NextBD == BDUpdate

SpecBD == InitBD /\ [][NextBD]_vars

(***************************************************************************)
(* A stand-alone TemporalFeatureExtractor.                                 *)
(***************************************************************************)
InitTFE ==
    /\ bd = BlinkDetector_init(DefaultThreshold, DefaultMinFrames, DefaultMaxFrames)
    /\ \E w \in WindowSizes : tfe = TemporalFeatureExtractor_init(w)
    /\ frame_period = 0
    /\ InitCommon

TFEUpdate ==
    \E ear \in EarSamples :
        /\ Len(fed) < MaxUpdates
        /\ \E u \in {TemporalFeatureExtractor_update(tfe, SampleFeatures(ear, clock))} :
               /\ tfe' = u.self
               /\ temporal' = u.ret
        /\ fed' = Append(fed, ear)
        /\ op' = "tfe_update"
        /\ UNCHANGED <<bd, features, blink_event, model_input, clock,
                       runs, cur_run, events, blinks_added, n_frames, frame_period,
                       sample, run_times, frame_in, others>>

TFEAddBlink ==
    \E timestamp \in Timestamps :
        /\ timestamp >= clock
        /\ Len(blinks_added) < MaxBlinks
        /\ tfe' = add_blink(tfe, timestamp)
        /\ blinks_added' = Append(blinks_added, timestamp)
        /\ clock' = timestamp
        /\ op' = "add_blink"
        /\ UNCHANGED <<bd, features, blink_event, temporal, model_input,
                       runs, cur_run, events, fed, n_frames, frame_period,
                       sample, run_times, frame_in, others>>

NextTFE == TFEUpdate \/ TFEAddBlink

SpecTFE == InitTFE /\ [][NextTFE]_vars

(***************************************************************************)
(* The pipeline: a FeatureExtractor given one frame after the other, the   *)
(* record of a frame optionally turned into a model input.                 *)
(***************************************************************************)
\* seconds between two frames, fixed for a session
FramePeriods == {1, 40, 70}

Init ==
    /\ bd = BlinkDetector_init(DefaultThreshold, DefaultMinFrames, DefaultMaxFrames)
    /\ tfe = TemporalFeatureExtractor_init(DefaultWindowSize)
    /\ frame_period \in FramePeriods
    /\ InitCommon

Extract ==
    \E frame \in Frames :
        /\ n_frames < MaxFrames
        /\ op # "error"
        /\ \E r \in {extract(bd, tfe, frame, clock + frame_period)} :
           LET g == RunsAfter(runs, cur_run, bd.threshold, r.bd_calls)
           IN  IF r.raised
               THEN \* the exception leaves the frame loop of the caller
                    /\ op' = "error"
                    /\ UNCHANGED <<bd, tfe, features, blink_event, temporal,
                                   runs, cur_run, events, fed, blinks_added,
                                   clock, sample, run_times>>
               ELSE /\ op' = "extract"
                    /\ bd' = r.bd
                    /\ tfe' = r.tfe
                    /\ features' = r.ret
                    /\ blink_event' = IF r.bd_calls = <<>> THEN blink_event
                                      ELSE r.blink_event
                    /\ temporal' = IF r.update_calls = <<>> THEN temporal
                                   ELSE r.temporal
                    /\ runs' = g.runs
                    /\ cur_run' = g.cur_run
                    /\ events' = EventsAfter(events, r.blink_event, Len(g.runs))
                    /\ fed' = fed \o r.update_calls
                    /\ blinks_added' = blinks_added \o r.add_blink_calls
                    /\ clock' = r.ret.timestamp
                    /\ sample' = IF r.bd_calls = <<>> THEN sample ELSE r.bd_calls
                    /\ run_times' = TimesAfter(run_times, cur_run, bd.threshold,
                                               r.bd_calls, r.ret.timestamp)
        /\ frame_in' = frame
        /\ n_frames' = n_frames + 1
        /\ UNCHANGED <<model_input, frame_period, others>>

GetModelInput ==
    /\ op = "extract"
    /\ \E r \in {get_model_input(tfe, features)} :
           /\ tfe' = r.tfe
           /\ temporal' = r.temporal
           /\ model_input' = r.ret
           /\ fed' = fed \o r.update_calls
    /\ op' = "get_model_input"
    /\ UNCHANGED <<bd, features, blink_event, clock, runs, cur_run, events,
                   blinks_added, n_frames, frame_period, sample, run_times, frame_in, others>>

Next == Extract \/ GetModelInput

Spec == Init /\ [][Next]_vars

(***************************************************************************)
(* A temporal extractor over a long session: more blinks than the blink    *)
(* window holds, recorded frame_period seconds apart.                      *)
(***************************************************************************)
BlinkPeriods == {0, 1, 30}

InitBlinks ==
    /\ bd = BlinkDetector_init(DefaultThreshold, DefaultMinFrames, DefaultMaxFrames)
    /\ tfe = TemporalFeatureExtractor_init(DefaultWindowSize)
    /\ frame_period \in BlinkPeriods
    /\ InitCommon

LongAddBlink ==
    /\ Len(blinks_added) < BlinkTimesMaxlen + ExtraBlinks
    /\ tfe' = add_blink(tfe, clock + frame_period)
    /\ blinks_added' = Append(blinks_added, clock + frame_period)
    /\ clock' = clock + frame_period
    /\ op' = "add_blink"
    /\ UNCHANGED <<bd, features, blink_event, temporal, model_input,
                   runs, cur_run, events, fed, n_frames, frame_period,
                   sample, run_times, frame_in, others>>

LongUpdate ==
    \E ear \in EarSamples :
        /\ Len(fed) < MaxProbes
        /\ \E u \in {TemporalFeatureExtractor_update(tfe, SampleFeatures(ear, clock))} :
               /\ tfe' = u.self
               /\ temporal' = u.ret
        /\ fed' = Append(fed, ear)
        /\ op' = "tfe_update"
        /\ UNCHANGED <<bd, features, blink_event, model_input, clock,
                       runs, cur_run, events, blinks_added, n_frames, frame_period,
                       sample, run_times, frame_in, others>>

NextBlinks == LongAddBlink \/ LongUpdate

SpecBlinks == InitBlinks /\ [][NextBlinks]_vars

(***************************************************************************)
(* Two TemporalFeatureExtractor objects side by side.  The deques are      *)
(* objects on a heap and an extractor holds references to its two deques,  *)
(* so that sharing between the objects is a state the model can express.   *)
(***************************************************************************)
\* __init__ binding both attributes to deques shared by all instances
TemporalFeatureExtractor_new_Shared(heap, window_size) ==
    [heap |-> IF heap = <<>> THEN << <<>>, <<>> >> ELSE heap,
     self |-> [window_size |-> window_size, ear_history |-> 1,
               blink_times |-> 2]]

\* TemporalFeatureExtractor(window_size): __init__ creates two new deques and
\* binds them to the attributes of the new object
TemporalFeatureExtractor_new(heap, window_size) ==
    [heap |-> heap \o << <<>>, <<>> >>,
     self |-> [window_size |-> window_size, ear_history |-> Len(heap) + 1,
               blink_times |-> Len(heap) + 2]]

\* the extractor as its methods see it: self.ear_history and
\* self.blink_times read through the references
Deref(heap, self) ==
    [window_size |-> self.window_size, ear_history |-> heap[self.ear_history],
     blink_times |-> heap[self.blink_times]]

\* the heap after a method left the deques of self as in after
Store(heap, self, after) ==
    [a \in DOMAIN heap |->
        IF a = self.ear_history THEN after.ear_history
        ELSE IF a = self.blink_times THEN after.blink_times
        ELSE heap[a]]

\* the calls a caller makes on an extractor
TwinCalls ==
    {[method |-> "update", ear |-> e] : e \in EarSamples}
    \cup {[method |-> "add_blink", timestamp |-> t] : t \in Timestamps}

\* a method call on the object self: the heap after it and what it returns
Call(heap, self, c) ==
    IF c.method = "update"
    THEN LET u == TemporalFeatureExtractor_update(Deref(heap, self),
                                                  SampleFeatures(c.ear, 0))
         IN  [heap |-> Store(heap, self, u.self), ret |-> u.ret]
    ELSE [heap |-> Store(heap, self, add_blink(Deref(heap, self), c.timestamp)),
          ret |-> None]

InitTwin ==
    /\ bd = BlinkDetector_init(DefaultThreshold, DefaultMinFrames, DefaultMaxFrames)
    /\ tfe = TemporalFeatureExtractor_init(DefaultWindowSize)
    /\ frame_period = 0
    /\ InitHistory
    /\ calc = None
    /\ \E w \in WindowSizes :
          LET a == TemporalFeatureExtractor_new(<<>>, w)
              b == TemporalFeatureExtractor_new(a.heap, w)
          IN  twin = [heap |-> b.heap,
                      obj |-> [a |-> a.self, b |-> b.self],
                      log |-> [a |-> <<>>, b |-> <<>>],
                      calls |-> <<>>]

\* the next call on extractor i: the call the other extractor received at
\* this position if it is ahead, any call otherwise
TwinCall(i) ==
    /\ Len(twin.log[i]) < MaxTwinCalls
    /\ \E c \in TwinCalls :
          /\ Len(twin.log[i]) < Len(twin.calls) =>
                c = twin.calls[Len(twin.log[i]) + 1]
          /\ \E r \in {Call(twin.heap, twin.obj[i], c)} :
                twin' = [twin EXCEPT
                            !.heap = r.heap,
                            !.log[i] = Append(@, r.ret),
                            !.calls = IF Len(twin.log[i]) < Len(twin.calls)
                                      THEN @ ELSE Append(@, c)]
    /\ op' = "twin_call"
    /\ UNCHANGED <<bd, tfe, features, blink_event, temporal, model_input, clock,
                   runs, cur_run, events, fed, blinks_added, n_frames,
                   frame_period, sample, run_times, frame_in, calc>>

NextTwin == TwinCall("a") \/ TwinCall("b")

SpecTwin == InitTwin /\ [][NextTwin]_vars

(***************************************************************************)
(* Two BlinkDetector objects fed the same EAR values under different       *)
(* timestamps: the samples of the first stream lie within half a minute,   *)
(* the second stream has gaps of an hour and of a day.                     *)
(***************************************************************************)
NearTimestamps == {0, 30}

FarTimestamps == {0, 3600, 86400}

InitPair ==
    /\ \E c \in Configs :
          /\ bd = BlinkDetector_init(c[1], c[2], c[3])
          /\ twin = [bd |-> BlinkDetector_init(c[1], c[2], c[3]),
                     clock |-> 0, ret |-> None]
    /\ tfe = TemporalFeatureExtractor_init(DefaultWindowSize)
    /\ frame_period = 0
    /\ InitHistory
    /\ calc = None

\* one sample of the stream: update is called on both detectors with the
\* same ear, each with the timestamp of its own stream
PairUpdate ==
    \E ear \in EarSamples, timestamp \in NearTimestamps, far \in FarTimestamps :
        /\ timestamp >= clock
        /\ far >= twin.clock
        /\ ear < bd.threshold =>
              /\ cur_run < bd.max_frames + Slack
              /\ cur_run = 0 => Len(runs) < MaxRuns
        /\ \E r \in {BlinkDetector_update(bd, ear, timestamp)},
              q \in {BlinkDetector_update(twin.bd, ear, far)} :
           LET g == RunsAfter(runs, cur_run, bd.threshold, <<ear>>)
           IN  /\ bd' = r.self
               /\ blink_event' = r.ret
               /\ twin' = [bd |-> q.self, clock |-> far, ret |-> q.ret]
               /\ runs' = g.runs
               /\ cur_run' = g.cur_run
               /\ events' = EventsAfter(events, r.ret, Len(g.runs))
        /\ clock' = timestamp
        /\ sample' = <<ear>>
        /\ run_times' = TimesAfter(run_times, cur_run, bd.threshold, <<ear>>,
                                   timestamp)
        /\ op' = "pair_update"
        /\ UNCHANGED <<tfe, features, temporal, model_input, fed, blinks_added,
                       n_frames, frame_period, frame_in, calc>>

NextPair == PairUpdate

SpecPair == InitPair /\ [][NextPair]_vars

(***************************************************************************)
(* calculate_ear called on its own with a list of points.                  *)
(***************************************************************************)
\* the grid units per unit of length: 1/100 as in the frames, and 1e-7, fine
\* enough for distances below the epsilon 1e-6
Resolutions == {100, 10000000}

\* eye shapes with their horizontal and vertical distances: flat and
\* degenerate ones (h = 0), ones narrower than, at and above the epsilon at
\* the fine resolution, and a slanted one (h = 50, v1 = 12, v2 = 5)
EarShapes ==
    {[h |-> h, v1 |-> a, v2 |-> b, points |-> EyeShape(0, h, a, b)] :
        h \in {0, 5, 10, 50}, a \in {0, 5, 10}, b \in {0, 5, 10}}
    \cup {[h |-> 50, v1 |-> 12, v2 |-> 5,
           points |-> << <<0, 0>>, <<1, 0>>, <<2, 0>>,
                         <<30, 40>>, <<5, 4>>, <<1, 12>> >>]}

\* the first n points of a shape, padded with further points beyond 6
Landmarks(shape, n) ==
    [k \in 1..n |-> IF k <= 6 THEN shape.points[k] ELSE <<k, k>>]

InitEAR ==
    /\ bd = BlinkDetector_init(DefaultThreshold, DefaultMinFrames, DefaultMaxFrames)
    /\ tfe = TemporalFeatureExtractor_init(DefaultWindowSize)
    /\ frame_period = 0
    /\ InitHistory
    /\ twin = None
    /\ \E shape \in EarShapes, n \in 0..MaxPoints, res \in Resolutions :
          calc = [eye_landmarks |-> Landmarks(shape, n), resolution |-> res,
                  shape |-> shape, called |-> FALSE, raised |-> FALSE,
                  ret |-> <<>>]

\* one call of calculate_ear: it raises ValueError or returns the ratio
CalculateEar ==
    /\ ~calc.called
    /\ calc' = IF calculate_ear_raises(calc.eye_landmarks)
               THEN [calc EXCEPT !.called = TRUE, !.raised = TRUE]
               ELSE [calc EXCEPT !.called = TRUE,
                                 !.ret = <<calculate_ear_at(calc.eye_landmarks,
                                                            calc.resolution)>>]
    /\ op' = "calculate_ear"
    /\ UNCHANGED <<bd, tfe, features, blink_event, temporal, model_input, clock,
                   runs, cur_run, events, fed, blinks_added, n_frames,
                   frame_period, sample, run_times, frame_in, twin>>

NextEAR == CalculateEar

SpecEAR == InitEAR /\ [][NextEAR]_vars

(***************************************************************************)
(* Claims about the BlinkDetector (specification SpecBD).                  *)
(***************************************************************************)
\* whether a run of k below-threshold samples counts as a blink
InRange(k) == bd.min_frames <= k /\ k <= bd.max_frames

\* the positions in the event history of the events that closed run i
EventsOfRun(i) == {j \in 1..Len(events) : events[j].run = i}

\* C1: every finished below-threshold run of k samples with
\* min_frames <= k <= max_frames yields exactly one event, returned by the
\* call of the reopening sample, with duration_frames = k and
\* is_complete = TRUE, and leaves the detector open with counter 0.
C1_ValidRunYieldsOneEvent ==
    /\ \A i \in 1..Len(runs) :
          InRange(runs[i]) =>
              /\ Cardinality(EventsOfRun(i)) = 1
              /\ \A j \in EventsOfRun(i) :
                    /\ events[j].event.duration_frames = runs[i]
                    /\ events[j].event.is_complete = TRUE
    /\ blink_event # None =>
          /\ Len(events) > 0
          /\ events[Len(events)] = [run |-> Len(runs), event |-> blink_event]
          /\ ~bd.below_threshold
          /\ bd.frame_count = 0

\* C1 witness: the default detector fed one run of four samples below the
\* threshold and then reopened, one event of four frames returned
C1_Witness ==
    /\ bd.threshold = DefaultThreshold
    /\ bd.min_frames = DefaultMinFrames
    /\ bd.max_frames = DefaultMaxFrames
    /\ runs = <<4>>
    /\ Len(events) = 1
    /\ blink_event # None
    /\ blink_event.duration_frames = 4
    /\ ~bd.below_threshold
    /\ bd.frame_count = 0

\* C2: a below-threshold run that ends with a frame count outside
\* [min_frames, max_frames] yields no event, by the call that ends it or by
\* any later call, and the detector is back open with counter 0.
C2_InvalidRunYieldsNoEvent ==
    /\ \A i \in 1..Len(runs) : ~InRange(runs[i]) => EventsOfRun(i) = {}
    /\ blink_event # None =>
          /\ cur_run = 0
          /\ Len(runs) > 0
          /\ InRange(runs[Len(runs)])
    /\ cur_run = 0 => (~bd.below_threshold /\ bd.frame_count = 0)

\* C2 witness: the default detector after a run of 15 frames (too long) and
\* a run of 1 frame (too short), no event returned
C2_Witness ==
    /\ bd.max_frames = DefaultMaxFrames
    /\ bd.min_frames = DefaultMinFrames
    /\ runs = <<15, 1>>
    /\ events = <<>>
    /\ blink_event = None
    /\ ~bd.below_threshold
    /\ bd.frame_count = 0

(***************************************************************************)
(* Claims about the pipeline's handling of a frame without a face          *)
(* (specification Spec).                                                   *)
(***************************************************************************)
\* the record extract returns for a frame without a face
ZeroFeatures(f) ==
    /\ f.face_detected = FALSE
    /\ f.left_ear = 0 /\ f.right_ear = 0 /\ f.average_ear = 0
    /\ f.yaw = 0 /\ f.pitch = 0 /\ f.roll = 0

\* a step that is extract on a frame without a face
NoFaceExtractStep ==
    /\ n_frames' = n_frames + 1
    /\ features'.face_detected = FALSE

\* C3 as stated: extract on a frame with no face detected returns the zeroed
\* record and still calls the temporal extractor's update, so the EAR
\* window gains one EAR = 0 sample for that frame.
C3_NoFaceFeedsWindow ==
    [][NoFaceExtractStep =>
          /\ ZeroFeatures(features')
          /\ fed' = Append(fed, 0)
          /\ tfe'.ear_history =
                DequeAppend(tfe.ear_history, 0, tfe.window_size)]_vars

\* C3 amended: extract on a frame with no face detected returns the zeroed
\* record and leaves the temporal extractor untouched (update is not
\* called, the EAR window is unchanged); the EAR = 0 sample of that frame
\* enters the window only when the record is passed to get_model_input.
C3_NoFaceLeavesWindow ==
    [][/\ NoFaceExtractStep =>
             /\ ZeroFeatures(features')
             /\ features'.timestamp = clock'
             /\ fed' = fed
             /\ tfe' = tfe
       /\ (op' = "get_model_input" /\ op = "extract" /\ ~features.face_detected) =>
             /\ fed' = Append(fed, 0)
             /\ tfe'.ear_history =
                   DequeAppend(tfe.ear_history, 0, tfe.window_size)]_vars

\* C3 witness: extract has just returned the record of a frame without a
\* face, after a frame with a face had put its sample into the window
C3_Witness ==
    /\ op = "extract"
    /\ features # None
    /\ ~features.face_detected
    /\ features.average_ear = 0
    /\ Len(tfe.ear_history) = 1
    /\ tfe.ear_history[1] = 300
    /\ n_frames = 2

(***************************************************************************)
(* Claims about the TemporalFeatureExtractor (specification SpecTFE).      *)
(***************************************************************************)
\* the number of samples of s below thr
RECURSIVE CountBelow(_, _)
CountBelow(s, thr) ==
    IF s = <<>> THEN 0
    ELSE (IF Head(s) < thr THEN 1 ELSE 0) + CountBelow(Tail(s), thr)

\* the state right after an update call that found at least 3 samples
ComputedSummary == op = "tfe_update" /\ Len(tfe.ear_history) >= 3

\* the fixed default summary: earMean 0.30, earStd 0, earDerivative 0,
\* perclos 0, blinkRate 17
IsDefaultSummary(t) ==
    /\ t.ear_mean = <<300, 1>>
    /\ t.ear_std = [sqrt_of |-> <<0, 1>>]
    /\ t.ear_derivative = <<0, 1>>
    /\ t.perclos = <<0, 1>>
    /\ t.blink_rate = <<17, 1>>

\* C4: the EAR window never holds more than its capacity; after n update
\* calls it holds exactly the last min(n, capacity) values fed, in arrival
\* order, and add_blink removes nothing from it.
C4_WindowIsLastSamples ==
    /\ Len(tfe.ear_history) <= tfe.window_size
    /\ Len(tfe.ear_history) = Min(Len(fed), tfe.window_size)
    /\ \A i \in 1..Len(tfe.ear_history) :
          tfe.ear_history[i] = fed[Len(fed) - Len(tfe.ear_history) + i]

\* C4 witness: five samples fed to a window of three, the two oldest
\* evicted, a blink recorded in between
C4_Witness ==
    /\ tfe.window_size = 3
    /\ fed = <<100, 210, 300, 100, 210>>
    /\ tfe.ear_history = <<300, 100, 210>>
    /\ blinks_added # <<>>

\* C5: update returns exactly the default summary whenever the window holds
\* fewer than 3 samples after the append (the first and second update of a
\* fresh extractor, whatever the EAR values and the blinks recorded); from
\* the third update on, with capacity >= 3, the summary is computed from the
\* window.
C5_DefaultBelowThreeSamples ==
    op = "tfe_update" =>
        /\ Len(fed) < 3 => IsDefaultSummary(temporal)
        /\ Len(tfe.ear_history) < 3 => IsDefaultSummary(temporal)
        /\ (Len(fed) >= 3 /\ tfe.window_size >= 3) =>
              /\ Len(tfe.ear_history) >= 3
              /\ temporal.ear_mean[1] * Len(tfe.ear_history) =
                    SumSeq(tfe.ear_history) * temporal.ear_mean[2]
              /\ temporal.ear_derivative[1] =
                    fed[Len(fed)] - fed[Len(fed) - 1]

\* C5 witness: the second update of a fresh extractor, both samples 0.10 and
\* a blink already recorded, returns the default summary
C5_Witness ==
    /\ op = "tfe_update"
    /\ fed = <<100, 100>>
    /\ blinks_added # <<>>
    /\ IsDefaultSummary(temporal)

\* C6: with at least 3 samples in the window, the perclos returned by update
\* is (samples of the window strictly below 0.21) / (samples of the window),
\* so it lies in [0, 1]; 10 samples of which 3 are below 0.21 give 0.3.
C6_PerclosIsFractionBelow ==
    /\ ComputedSummary =>
          /\ temporal.perclos[2] > 0
          /\ temporal.perclos[1] * Len(tfe.ear_history) =
                CountBelow(tfe.ear_history, 210) * temporal.perclos[2]
          /\ 0 <= temporal.perclos[1]
          /\ temporal.perclos[1] <= temporal.perclos[2]
    /\ _compute_perclos(<<300, 100, 300, 300, 100, 210, 300, 100, 300, 250>>)
          = <<3, 10>>

\* C6 witness: a window of three samples, one below 0.21 and one exactly
\* 0.21, gives perclos 1/3
C6_Witness ==
    /\ ComputedSummary
    /\ tfe.ear_history = <<100, 210, 300>>
    /\ temporal.perclos = <<1, 3>>

\* the number of timestamps of s less than 60 seconds older than latest
RECURSIVE CountRecent(_, _)
CountRecent(s, latest) ==
    IF s = <<>> THEN 0
    ELSE (IF latest - Head(s) < 60 THEN 1 ELSE 0) + CountRecent(Tail(s), latest)

\* C7: with at least 3 samples in the window, the blinkRate returned by
\* update is 17 when no blink was ever recorded, and otherwise the number of
\* recorded blinks within 60 seconds of (less than 60 s older than) the most
\* recently recorded blink, not of the current time: 5 blinks within 60 s of
\* the latest give 5, blinks older than that are not counted.
C7_BlinkRateCountsRecent ==
    /\ ComputedSummary =>
          /\ blinks_added = <<>> => temporal.blink_rate = <<17, 1>>
          /\ blinks_added # <<>> =>
                temporal.blink_rate =
                    <<CountRecent(blinks_added, blinks_added[Len(blinks_added)]), 1>>
    /\ _compute_blink_rate([window_size |-> 30, ear_history |-> <<>>,
                            blink_times |-> <<100, 110, 125, 140, 159>>]) = <<5, 1>>
    /\ _compute_blink_rate([window_size |-> 30, ear_history |-> <<>>,
                            blink_times |-> <<0, 10, 100, 130>>]) = <<2, 1>>

\* C7 witness: blinks recorded at 0, 60 and 90 s, the update made at 90 s:
\* the blink at 0 s is 90 s older than the latest and is not counted
C7_Witness ==
    /\ ComputedSummary
    /\ blinks_added = <<0, 60, 90>>
    /\ temporal.blink_rate = <<2, 1>>

(***************************************************************************)
(* Claims about the pipeline (specification Spec).                         *)
(***************************************************************************)
\* C8: add_blink is called only on a frame whose BlinkDetector.update
\* returned an event, and exactly once for it: the timestamps recorded are,
\* one for one, those of the frames on which the detector returned its
\* events, and no other operation records a blink.
C8_AddBlinkOncePerEvent ==
    /\ Len(blinks_added) = Len(events)
    /\ \A j \in 1..Len(events) : blinks_added[j] = events[j].event.end_time
    /\ tfe.blink_times = blinks_added
    /\ (op = "extract" /\ features.face_detected /\ blink_event = None) =>
          \A j \in 1..Len(blinks_added) : blinks_added[j] < clock

\* C8 witness: two closed frames and an open one produced the one event of
\* the session, recorded once, and a further frame recorded nothing
C8_Witness ==
    /\ n_frames = 4
    /\ op = "extract"
    /\ Len(events) = 1
    /\ events[1].event.duration_frames = 2
    /\ blinks_added = <<events[1].event.end_time>>
    /\ blink_event = None
    /\ clock > blinks_added[1]

\* C9: the vector get_model_input returns has exactly 10 elements, in the
\* order averageEAR, yaw/90, pitch/90, roll/90, eyesClosedIndicator, earMean,
\* earStd, earDerivative, perclos, blinkRate/30; the indicator is 1 exactly
\* when averageEAR < 0.21; the last five are the summary update returned for
\* the same record.
C9_ModelInputLayout ==
    op = "get_model_input" =>
        /\ Len(model_input) = 10
        /\ model_input[1] = <<features.average_ear, 1>>
        /\ model_input[2][1] * 90 = features.yaw * model_input[2][2]
        /\ model_input[3][1] * 90 = features.pitch * model_input[3][2]
        /\ model_input[4][1] * 90 = features.roll * model_input[4][2]
        /\ model_input[5] = IF features.average_ear < 210 THEN <<1, 1>> ELSE <<0, 1>>
        /\ model_input[6] = temporal.ear_mean
        /\ model_input[7] = temporal.ear_std
        /\ model_input[8] = temporal.ear_derivative
        /\ model_input[9] = temporal.perclos
        /\ model_input[10][1] * 30 * temporal.blink_rate[2] =
              temporal.blink_rate[1] * model_input[10][2]
        /\ \A k \in {2, 3, 4, 10} : model_input[k][2] > 0
        /\ tfe.ear_history[Len(tfe.ear_history)] = features.average_ear
        /\ Len(tfe.ear_history) >= 3 =>
              /\ model_input[6][1] * Len(tfe.ear_history) =
                    SumSeq(tfe.ear_history) * model_input[6][2]
              /\ model_input[9][1] * Len(tfe.ear_history) =
                    CountBelow(tfe.ear_history, 210) * model_input[9][2]
        /\ Len(tfe.ear_history) < 3 => IsDefaultSummary(temporal)

\* C9 witness: the model input of a frame with average EAR exactly 0.21 and
\* yaw -90, the window holding four samples: the indicator is 0, yaw/90 is -1
C9_Witness ==
    /\ op = "get_model_input"
    /\ features.average_ear = 210
    /\ features.yaw = -90
    /\ Len(tfe.ear_history) = 4
    /\ Len(model_input) = 10
    /\ model_input[2] = <<-1, 1>>
    /\ model_input[5] = <<0, 1>>
    /\ model_input[10] = <<17, 30>>

\* C10 as stated: no EAR value outside [0, 1] is ever stored in the EAR
\* window (nor used in the derivative or perclos computed from it).
C10_WindowEarWithinUnitRange ==
    \A i \in 1..Len(tfe.ear_history) :
        0 <= tfe.ear_history[i] /\ tfe.ear_history[i] <= 1000

\* ---- the calculator, the pose estimator, the windows and the detector edge ----

\* C11: two newly constructed extractors given the same sequence of update
\* and add_blink calls return the same value at every position of the
\* sequence and hold equal windows after equally many calls; a call on one
\* extractor leaves the windows of the other as they were.
C11_InstancesAreIndependent ==
    [][/\ \A k \in 1..Min(Len(twin'.log.a), Len(twin'.log.b)) :
             twin'.log.a[k] = twin'.log.b[k]
       /\ Len(twin'.log.a) = Len(twin'.log.b) =>
             Deref(twin'.heap, twin'.obj.a) = Deref(twin'.heap, twin'.obj.b)
       /\ \A i \in {"a", "b"} :
             Len(twin'.log[i]) = Len(twin.log[i]) =>
                 Deref(twin'.heap, twin'.obj[i]) = Deref(twin.heap, twin.obj[i])]_vars

\* both extractors received update(0.30), add_blink(30), update(0.10),
\* update(0.10) and returned the summary computed from the full window
C11_Witness ==
    /\ twin # None
    /\ twin.calls = <<[method |-> "update", ear |-> 300],
                      [method |-> "add_blink", timestamp |-> 30],
                      [method |-> "update", ear |-> 100],
                      [method |-> "update", ear |-> 100]>>
    /\ Len(twin.log.a) = 4
    /\ Len(twin.log.b) = 4
    /\ twin.log.a[4].perclos = <<2, 3>>
    /\ twin.log.b[4].blink_rate = <<1, 1>>
    /\ Deref(twin.heap, twin.obj.b).ear_history = <<300, 100, 100>>

\* C12: calculate_ear raises ValueError exactly when the list it is given
\* does not hold 6 points; whether it raises or returns, the list and
\* every other part of the state are as before the call.
C12_RaisesIffNotSixPoints ==
    [][calc'.called =>
          /\ calc'.raised <=> Len(calc.eye_landmarks) # 6
          /\ calc'.raised => calc'.ret = <<>>
          /\ ~calc'.raised => Len(calc'.ret) = 1
          /\ calc'.eye_landmarks = calc.eye_landmarks
          /\ UNCHANGED <<bd, tfe, features, blink_event, temporal,
                         model_input, clock, twin>>]_vars

\* a call with 7 points has raised
C12_Witness ==
    /\ calc # None
    /\ calc.called
    /\ Len(calc.eye_landmarks) = 7
    /\ calc.raised

\* the horizontal distance of the shape given to calculate_ear is below 1e-6
BelowEpsilon == calc.shape.h * 1000000 < calc.resolution

\* C13: on 6 points whose horizontal distance p1-p4 is below the epsilon
\* 1e-6, zero included, calculate_ear returns exactly 0 and raises nothing,
\* whatever the vertical distances are.
C13_ZeroBelowEpsilon ==
    (calc # None /\ calc.called /\ Len(calc.eye_landmarks) = 6 /\ BelowEpsilon) =>
        /\ ~calc.raised
        /\ calc.ret = <<0>>

\* a call on an eye 5e-7 wide with vertical distances 1e-6 has returned 0
C13_Witness ==
    /\ calc # None
    /\ calc.called
    /\ Len(calc.eye_landmarks) = 6
    /\ calc.resolution = 10000000
    /\ calc.shape.h = 5
    /\ calc.shape.v1 = 10
    /\ calc.shape.v2 = 10
    /\ calc.ret = <<0>>

\* r is the ratio (v1 + v2) / (2 h) of the shape given to calculate_ear, in
\* thousandths, rounded down
IsAnalyticEar(r) ==
    /\ 2 * calc.shape.h * r <= 1000 * (calc.shape.v1 + calc.shape.v2)
    /\ 1000 * (calc.shape.v1 + calc.shape.v2) < 2 * calc.shape.h * (r + 1)

\* C14 as stated: on every 6 points with horizontal distance h > 0
\* calculate_ear returns (|p2-p6| + |p3-p5|) / (2 h).
C14_AnalyticForPositiveWidth ==
    (calc # None /\ calc.called /\ Len(calc.eye_landmarks) = 6
        /\ calc.shape.h > 0) =>
        /\ ~calc.raised
        /\ Len(calc.ret) = 1
        /\ IsAnalyticEar(calc.ret[1])

\* C14, amended: on every 6 points with horizontal distance h >= 1e-6
\* calculate_ear returns (|p2-p6| + |p3-p5|) / (2 h), with p1-p4 as the
\* horizontal distance.
C14_AnalyticFromEpsilon ==
    (calc # None /\ calc.called /\ Len(calc.eye_landmarks) = 6
        /\ ~BelowEpsilon) =>
        /\ ~calc.raised
        /\ Len(calc.ret) = 1
        /\ IsAnalyticEar(calc.ret[1])

\* a call on the slanted eye with h = 0.50, v1 = 0.12 and v2 = 0.05 has
\* returned 0.17
C14_Witness ==
    /\ calc # None
    /\ calc.called
    /\ calc.resolution = 100
    /\ calc.shape.h = 50
    /\ calc.shape.v1 = 12
    /\ calc.shape.v2 = 5
    /\ calc.ret = <<170>>

\* a step that is extract on a frame with a face for which solvePnP failed
PnpFailureStep ==
    /\ op' = "extract"
    /\ n_frames' = n_frames + 1
    /\ frame_in'.detected
    /\ ~frame_in'.pnp.success

\* C15: when the solver reports failure, estimate returns (0, 0, 0) and
\* raises nothing: extract returns a record of a detected face with all three
\* angles 0, and the frame's average EAR is still given to the blink
\* detector and to the temporal extractor.
C15_PnpFailureGivesZeroPose ==
    [][PnpFailureStep =>
          /\ features'.face_detected
          /\ features'.yaw = 0 /\ features'.pitch = 0 /\ features'.roll = 0
          /\ sample' = <<features'.average_ear>>
          /\ bd'.frame_count = IF features'.average_ear < bd.threshold
                               THEN bd.frame_count + 1 ELSE 0
          /\ fed' = Append(fed, features'.average_ear)
          /\ tfe'.ear_history =
                DequeAppend(tfe.ear_history, features'.average_ear,
                            tfe.window_size)
          /\ temporal' # None]_vars

\* extract has returned for two frames with closed eyes on which the solver
\* failed: the pose is zero, the detector counts 2 frames and the window
\* holds both samples
C15_Witness ==
    /\ op = "extract"
    /\ frame_in = ClosedFrame
    /\ features.yaw = 0 /\ features.pitch = 0 /\ features.roll = 0
    /\ bd.below_threshold
    /\ bd.frame_count = 2
    /\ tfe.ear_history = <<100, 100>>

\* the record is a FacialFeatures with every field set
IsFacialFeatures(f) ==
    DOMAIN f = {"left_ear", "right_ear", "average_ear", "yaw", "pitch", "roll",
                "face_detected", "confidence", "timestamp"}

\* the corners p1 and p4 of the eye coincide in the frame
DegenerateEye(frame, eye_indices) ==
    /\ frame.landmarks[eye_indices[1]][1] = frame.landmarks[eye_indices[4]][1]
    /\ frame.landmarks[eye_indices[1]][2] = frame.landmarks[eye_indices[4]][2]

\* C16: every frame given to extract ends in a returned FacialFeatures
\* record: the zero record without a face, EAR 0 for an eye of zero width,
\* pose (0, 0, 0) when the solver fails.  No frame ends in an error, and
\* extract can be called for the next frame.
C16_EveryFrameYieldsRecord ==
    /\ op # "error"
    /\ op \in {"extract", "get_model_input"} =>
          /\ IsFacialFeatures(features)
          /\ features.timestamp = clock
          /\ ~frame_in.detected =>
                /\ ZeroFeatures(features)
                /\ features.confidence = 0
          /\ frame_in.detected =>
                /\ features.face_detected
                /\ features.confidence = DetectedConfidence
                /\ DegenerateEye(frame_in, LEFT_EYE_INDICES) =>
                      features.left_ear = 0
                /\ DegenerateEye(frame_in, RIGHT_EYE_INDICES) =>
                      features.right_ear = 0
                /\ ~frame_in.pnp.success =>
                      (features.yaw = 0 /\ features.pitch = 0
                          /\ features.roll = 0)
    /\ n_frames < MaxFrames => ENABLED Extract

\* a frame without a face, a frame with a degenerate eye and a failed solve,
\* and a further frame have all been processed
C16_Witness ==
    /\ op = "extract"
    /\ n_frames = 3
    /\ frame_in = DegenerateFrame
    /\ features.left_ear = 0
    /\ features.average_ear = 150
    /\ features.yaw = 0
    /\ fed = <<300, 150>>
    /\ ENABLED Extract

\* C17: the blink window never holds more than 100 timestamps: after n calls
\* of add_blink it holds the last min(n, 100) timestamps in call order, and
\* the blink_rate of every summary is at most 100.
C17_BlinkWindowBounded ==
    LET n == Len(blinks_added)
        k == Len(tfe.blink_times)
    IN  /\ k <= BlinkTimesMaxlen
        /\ k = Min(n, BlinkTimesMaxlen)
        /\ tfe.blink_times = SubSeq(blinks_added, n - k + 1, n)
        /\ temporal # None =>
              temporal.blink_rate[1] <= BlinkTimesMaxlen * temporal.blink_rate[2]

\* 102 blinks with one timestamp were recorded: the window holds 100 of them
\* and the summary computed from it has blink_rate 100
C17_Witness ==
    /\ Len(blinks_added) = BlinkTimesMaxlen + 2
    /\ Len(tfe.blink_times) = BlinkTimesMaxlen
    /\ frame_period = 0
    /\ op = "tfe_update"
    /\ Len(tfe.ear_history) = 3
    /\ temporal.blink_rate = <<100, 1>>

\* C18: with at least 3 samples in the window, the ear_derivative that
\* update returns is the backward difference at the trailing edge of the
\* window: the sample just fed minus the sample fed before it.
C18_DerivativeIsBackwardDifference ==
    ComputedSummary =>
        /\ temporal.ear_derivative =
              Frac(fed[Len(fed)] - fed[Len(fed) - 1], 1)
        /\ temporal.ear_derivative =
              Frac(tfe.ear_history[Len(tfe.ear_history)]
                      - tfe.ear_history[Len(tfe.ear_history) - 1], 1)

\* a computed summary after the samples 0.30, 0.30, 0.10: the backward
\* difference is -0.20 where the central difference would be -0.10
C18_Witness ==
    /\ ComputedSummary
    /\ fed = <<300, 300, 100>>
    /\ temporal.ear_derivative = <<-200, 1>>

\* a detector constructed with the default arguments
DefaultDetector ==
    /\ bd.threshold = DefaultThreshold
    /\ bd.min_frames = DefaultMinFrames
    /\ bd.max_frames = DefaultMaxFrames

\* C19: as the class documentation of BlinkDetector states, a default
\* detector reports a blink for every finished excursion below the threshold
\* that lasted 1 to 10 frames.
C19_DocumentedLengthsAreBlinks ==
    DefaultDetector =>
        \A i \in 1..Len(runs) :
            (DocMinFrames <= runs[i] /\ runs[i] <= DocMaxFrames) =>
                EventsOfRun(i) # {}

\* C20: a call of update on an open detector with ear < threshold closes it,
\* sets the frame counter to exactly 1, records the timestamp of the call as
\* the start of the excursion and returns no event; with ear equal to the
\* threshold the detector stays as it was and no event is returned.
C20_OpenToClosing ==
    [][(op' = "bd_update" /\ ~bd.below_threshold) =>
          /\ sample'[1] < bd.threshold =>
                /\ bd'.below_threshold
                /\ bd'.frame_count = 1
                /\ bd'.blink_start_time = clock'
                /\ blink_event' = None
          /\ sample'[1] = bd.threshold =>
                /\ bd' = bd
                /\ ~bd'.below_threshold
                /\ bd'.frame_count = 0
                /\ blink_event' = None]_vars

\* the first sample below the threshold, given at second 30 to a detector
\* that was open: it is closing with counter 1 and start time 30
C20_Witness ==
    /\ op = "bd_update"
    /\ runs = <<>>
    /\ cur_run = 1
    /\ sample = <<100>>
    /\ bd.threshold = DefaultThreshold
    /\ bd.below_threshold
    /\ bd.frame_count = 1
    /\ clock = 30
    /\ bd.blink_start_time = 30
    /\ blink_event = None

\* C21: a call of update on a closing detector with ear < threshold leaves
\* it closing, adds exactly 1 to the frame counter, keeps the recorded start
\* timestamp and returns no event, beyond max_frames samples too.
C21_ClosingCountsEverySample ==
    [][(op' = "bd_update" /\ bd.below_threshold
           /\ sample'[1] < bd.threshold) =>
          /\ bd'.below_threshold
          /\ bd'.frame_count = bd.frame_count + 1
          /\ bd'.blink_start_time = bd.blink_start_time
          /\ blink_event' = None]_vars

\* the default detector 14 samples into an excursion that started at second
\* 30, the last sample given at second 90: the counter passed max_frames = 12
C21_Witness ==
    /\ op = "bd_update"
    /\ DefaultDetector
    /\ bd.below_threshold
    /\ bd.frame_count = DefaultMaxFrames + 2
    /\ cur_run = DefaultMaxFrames + 2
    /\ bd.blink_start_time = 30
    /\ clock = 90
    /\ blink_event = None

\* C22: a call of update on an open detector with ear >= threshold changes
\* nothing: flag, counter and start timestamp are as before and no event is
\* returned.
C22_OpenStaysOpen ==
    [][(op' = "bd_update" /\ ~bd.below_threshold
           /\ sample'[1] >= bd.threshold) =>
          /\ bd'.below_threshold = bd.below_threshold
          /\ bd'.frame_count = bd.frame_count
          /\ bd'.blink_start_time = bd.blink_start_time
          /\ bd' = bd
          /\ blink_event' = None]_vars

\* a sample of 0.30 given at second 60 to a detector that a finished
\* excursion started at second 30 had left open: the start timestamp is
\* still 30
C22_Witness ==
    /\ op = "bd_update"
    /\ sample = <<300>>
    /\ DefaultDetector
    /\ run_times = << <<30, 30>> >>
    /\ clock = 60
    /\ ~bd.below_threshold
    /\ bd.frame_count = 0
    /\ bd.blink_start_time = 30
    /\ blink_event = None

\* C23: every event returned by update carries as start_time the timestamp
\* of the first below-threshold sample of its excursion and as end_time the
\* timestamp of the sample at or above the threshold that ended it; with
\* timestamps that never decrease start_time <= end_time, and
\* duration_frames lies in [min_frames, max_frames].
C23_EventTimesAndDuration ==
    /\ \A j \in 1..Len(events) :
          LET e == events[j].event
              t == run_times[events[j].run]
          IN  /\ Len(t) = 2
              /\ e.start_time = t[1]
              /\ e.end_time = t[2]
              /\ e.start_time <= e.end_time
              /\ bd.min_frames <= e.duration_frames
              /\ e.duration_frames <= bd.max_frames
    /\ blink_event # None =>
          /\ Len(events) > 0
          /\ events[Len(events)].event = blink_event
          /\ blink_event.end_time = clock

\* the default detector has just returned the event of a run of 3 samples
\* that began at second 30 and was ended by a sample at second 90
C23_Witness ==
    /\ op = "bd_update"
    /\ DefaultDetector
    /\ runs = <<3>>
    /\ run_times = << <<30, 90>> >>
    /\ blink_event # None
    /\ blink_event.start_time = 30
    /\ blink_event.end_time = 90
    /\ blink_event.duration_frames = 3

\* C24: the detector does not look at the clock.  Two detectors given the
\* same EAR values under different timestamps are in the same state after
\* every sample, return an event at the same samples and with the same
\* duration_frames, and neither gives up an excursion in progress, however
\* long the gap between two samples is.
C24_TimestampsDoNotMatter ==
    /\ bd.below_threshold = twin.bd.below_threshold
    /\ bd.frame_count = twin.bd.frame_count
    /\ (blink_event = None) <=> (twin.ret = None)
    /\ blink_event # None =>
          /\ blink_event.duration_frames = twin.ret.duration_frames
          /\ blink_event.is_complete = twin.ret.is_complete
    /\ cur_run > 0 =>
          /\ twin.bd.below_threshold
          /\ twin.bd.frame_count = cur_run

\* a run of 2 samples given at one instant to the first detector and an
\* hour and a day apart to the second: both have just returned its event
C24_Witness ==
    /\ op = "pair_update"
    /\ DefaultDetector
    /\ runs = <<2>>
    /\ blink_event # None
    /\ blink_event.start_time = blink_event.end_time
    /\ twin.ret # None
    /\ twin.ret.start_time = 0
    /\ twin.ret.end_time = 86400
    /\ twin.ret.duration_frames = 2

\* the number of timestamps of s at most 60 seconds older than latest
RECURSIVE CountWithinMinute(_, _)
CountWithinMinute(s, latest) ==
    IF s = <<>> THEN 0
    ELSE (IF latest - Head(s) <= OneMinute THEN 1 ELSE 0)
             + CountWithinMinute(Tail(s), latest)

\* C25: the blink_rate of a computed summary counts every recorded blink
\* that is at most 60 seconds older than the most recently recorded one: a
\* blink exactly 60 seconds older is counted, only older ones are left out.
C25_BlinkSixtySecondsOldCounts ==
    (ComputedSummary /\ blinks_added # <<>>) =>
        temporal.blink_rate =
            <<CountWithinMinute(blinks_added, blinks_added[Len(blinks_added)]), 1>>

\* a step that is extract on a frame with a face whose sample completed a
\* blink
BlinkCompletingStep ==
    /\ op' = "extract"
    /\ n_frames' = n_frames + 1
    /\ features'.face_detected
    /\ Len(events') = Len(events) + 1

\* C26: on the frame that completes a blink, extract first calls the blink
\* detector, then add_blink with the frame's timestamp (the end time of the
\* blink), then the temporal update: the summary of that frame already
\* counts the blink.
C26_SummaryCountsCompletedBlink ==
    [][BlinkCompletingStep =>
          /\ blink_event' # None
          /\ blink_event'.end_time = features'.timestamp
          /\ blinks_added' = Append(blinks_added, features'.timestamp)
          /\ tfe'.blink_times[Len(tfe'.blink_times)] = features'.timestamp
          /\ fed' = Append(fed, features'.average_ear)
          /\ Len(tfe'.ear_history) >= 3 =>
                /\ temporal'.blink_rate =
                      <<CountRecent(blinks_added', features'.timestamp), 1>>
                /\ temporal'.blink_rate[1] >= 1]_vars

\* the third frame of a session ended the first blink: the blink is
\* recorded at the timestamp of the frame and the summary computed for the
\* frame has blink_rate 1
C26_Witness ==
    /\ op = "extract"
    /\ fed = <<100, 100, 300>>
    /\ blink_event # None
    /\ blink_event.duration_frames = 2
    /\ blinks_added = <<clock>>
    /\ features.timestamp = clock
    /\ temporal.blink_rate = <<1, 1>>

\* C27: each frame contributes exactly one sample to the EAR window when it
\* is processed by extract and then turned into a model input: the number
\* of samples appended to the window never exceeds the number of frames,
\* and after n frames the window holds at most min(n, capacity) samples.
C27_OneSamplePerFrame ==
    /\ Len(fed) <= n_frames
    /\ Len(tfe.ear_history) <= Min(n_frames, tfe.window_size)

\* a step that is extract on a frame in which no face was found
GapStep ==
    /\ op' = "extract"
    /\ n_frames' = n_frames + 1
    /\ ~frame_in'.detected

\* C28: extract on a frame without a face leaves the blink detector as it
\* was (flag, counter, start timestamp) and records no blink; the excursion
\* goes on with the next detected frame, and the duration_frames of an event
\* is the number of detected below-threshold frames of its excursion.
C28_NoFaceIsGapForDetector ==
    [][/\ GapStep =>
             /\ bd'.below_threshold = bd.below_threshold
             /\ bd'.frame_count = bd.frame_count
             /\ bd'.blink_start_time = bd.blink_start_time
             /\ bd' = bd
             /\ blink_event' = blink_event
             /\ Len(events') = Len(events)
             /\ blinks_added' = blinks_added
             /\ tfe'.blink_times = tfe.blink_times
             /\ sample' = sample
       /\ Len(events') = Len(events) + 1 =>
             /\ frame_in'.detected
             /\ blink_event'.duration_frames = cur_run]_vars

\* four frames: eyes closed, then no face and eyes closed in either order,
\* then eyes open.  The event of the fourth frame spans all four frames and
\* counts the 2 frames with closed eyes.
C28_Witness ==
    /\ op = "extract"
    /\ n_frames = 4
    /\ fed = <<100, 100, 300>>
    /\ runs = <<2>>
    /\ blink_event # None
    /\ blink_event.duration_frames = 2
    /\ blink_event.start_time = frame_period
    /\ blink_event.end_time = 4 * frame_period

\* flag and counter of the detector agree: the counter is 0 exactly when the
\* detector is open, and while it is closing the counter is the number of
\* consecutive below-threshold samples since the excursion started
FlagAndCounterAgree ==
    /\ (bd.frame_count = 0) <=> ~bd.below_threshold
    /\ bd.below_threshold <=> (cur_run > 0)
    /\ bd.below_threshold =>
          /\ bd.frame_count >= 1
          /\ bd.frame_count = cur_run

\* C29: in every state of a detector reached by update calls the flag and
\* the counter agree, and no update call changes threshold, min_frames or
\* max_frames.
C29_FlagCounterConfigInvariant ==
    /\ []FlagAndCounterAgree
    /\ [][/\ bd'.threshold = bd.threshold
          /\ bd'.min_frames = bd.min_frames
          /\ bd'.max_frames = bd.max_frames]_vars

\* the default detector 3 samples into its second excursion, after a first
\* one of a single sample was rejected and the counter reset
C29_Witness ==
    /\ op = "bd_update"
    /\ DefaultDetector
    /\ runs = <<1>>
    /\ events = <<>>
    /\ cur_run = 3
    /\ bd.below_threshold
    /\ bd.frame_count = 3

\* C30: once a blink has been recorded, every summary computed from 3 or
\* more samples has a blink_rate of at least 1, however long ago the last
\* blink is: the rate is the count of the blinks less than 60 seconds older
\* than the last recorded one, which that blink is always part of, never
\* the rate 17 of a session without blinks and never 0.
C30_RecordedBlinkKeepsRatePositive ==
    (blinks_added # <<>> /\ Len(fed) >= 3) =>
        /\ temporal.blink_rate[1] >= temporal.blink_rate[2]
        /\ temporal.blink_rate =
              <<CountRecent(tfe.blink_times,
                            tfe.blink_times[Len(tfe.blink_times)]), 1>>
        /\ Len(blinks_added) < NoBlinkRate =>
              temporal.blink_rate # <<NoBlinkRate, 1>>
        /\ temporal.blink_rate # <<0, 1>>

\* the one blink of the session was recorded at second 210; the summary of
\* the model input made for the frame of second 280, 70 s later, still has
\* blink_rate 1
C30_Witness ==
    /\ op = "get_model_input"
    /\ frame_period = 70
    /\ blinks_added = <<210>>
    /\ clock = 280
    /\ Len(fed) >= 3
    /\ temporal.blink_rate = <<1, 1>>

====
